---- MODULE Spec2Model ----
(***************************************************************************)
(* Model of the four log parsers of the Jolt File Activity Mapper          *)
(* (ElkLogParser, DefenderLogParser, WazuhLogParser, SysmonLogParser):     *)
(* the asynchronous parseLogs run over a batch of files, the per-adapter   *)
(* field mapping into parsedData, and generateVisualizationData.           *)
(*                                                                         *)
(* JavaScript strings are sequences of one-character strings, so that      *)
(* split, pop, includes and parseInt are computed and not assumed.         *)
(* A missing property (undefined) is the one-element sequence Undef for    *)
(* string-valued fields and NoNum for number-valued fields.                *)
(***************************************************************************)
EXTENDS Integers, Sequences, FiniteSets, TLC

\* ------------------------------------------------------------------ bounds
MaxFiles == 2
MaxRuns == 2
MaxClock == 1
MaxLevel == 15

\* ------------------------------------------------------- JavaScript values
Undef == <<"undefined">>
NoNum == 0 - 1
Null == [isNull |-> TRUE]

TruthyS(s) == s # Undef /\ s # <<>>
TruthyN(n) == n # NoNum /\ n # 0

\* a || b on string-valued operands
OrS(a, b) == IF TruthyS(a) THEN a ELSE b
\* a || b on number-valued operands
OrN(a, b) == IF TruthyN(a) THEN a ELSE b

\* event.f
Get(ev, f) == IF f \in DOMAIN ev THEN ev[f] ELSE Undef
GetN(ev, f) == IF f \in DOMAIN ev THEN ev[f] ELSE NoNum
\* event.g?.f
Get2(ev, g, f) == IF g \in DOMAIN ev THEN Get(ev[g], f) ELSE Undef
GetN2(ev, g, f) == IF g \in DOMAIN ev THEN GetN(ev[g], f) ELSE NoNum
\* the same for fields holding a keyword (event type, action label), which
\* the code only compares and copies: they are plain strings
UndefA == "undefined"
TruthyA(a) == a # UndefA /\ a # ""
GetA(ev, f) == IF f \in DOMAIN ev THEN ev[f] ELSE UndefA
GetA2(ev, g, f) == IF g \in DOMAIN ev THEN GetA(ev[g], f) ELSE UndefA
\* event.g?.h?.f
Get3(ev, g, h, f) == IF g \in DOMAIN ev THEN Get2(ev[g], h, f) ELSE Undef

\* ------------------------------------------------------- string primitives
RECURSIVE SplitAcc(_, _, _, _)
SplitAcc(s, sep, cur, acc) ==
    IF s = <<>> THEN Append(acc, cur)
    ELSE IF Head(s) = sep THEN SplitAcc(Tail(s), sep, <<>>, Append(acc, cur))
    ELSE SplitAcc(Tail(s), sep, Append(cur, Head(s)), acc)

\* String.prototype.split(sep) for a one-character separator
Split(s, sep) == SplitAcc(s, sep, <<>>, <<>>)

\* Array.prototype.pop() of a non-empty array: its last element
Pop(parts) == parts[Len(parts)]

IsPrefix(p, s) == Len(p) <= Len(s) /\ SubSeq(s, 1, Len(p)) = p

\* String.prototype.includes(needle)
Includes(s, needle) ==
    \E i \in 1..(Len(s) + 1) : IsPrefix(needle, SubSeq(s, i, Len(s)))

DigitVal(c) ==
    CASE c = "0" -> 0 [] c = "1" -> 1 [] c = "2" -> 2 [] c = "3" -> 3
      [] c = "4" -> 4 [] c = "5" -> 5 [] c = "6" -> 6 [] c = "7" -> 7
      [] c = "8" -> 8 [] c = "9" -> 9 [] OTHER -> NoNum

RECURSIVE ParseDigits(_, _, _)
ParseDigits(s, acc, seen) ==
    IF s = <<>> \/ DigitVal(Head(s)) = NoNum
    THEN (IF seen THEN acc ELSE NoNum)
    ELSE ParseDigits(Tail(s), acc * 10 + DigitVal(Head(s)), TRUE)

\* parseInt(s, 10) on an unsigned decimal prefix; NaN is NoNum
ParseInt(s) == ParseDigits(s, 0, FALSE)

Loopback4 == <<"1","2","7",".","0",".","0",".","1">>
Loopback6 == <<":",":","1">>

isInternalIP(ip) ==
    IF ~TruthyS(ip) THEN FALSE
    ELSE IF ip = Loopback4 \/ ip = Loopback6 THEN TRUE
    ELSE LET parts == Split(ip, ".")
         IN  IF Len(parts) = 4
             THEN LET p1 == ParseInt(parts[1])
                      p2 == ParseInt(parts[2])
                  IN  \/ p1 = 10
                      \/ (p1 = 172 /\ p2 >= 16 /\ p2 <= 31)
                      \/ (p1 = 192 /\ p2 = 168)
             ELSE FALSE


\* ------------------------------------------------------------- parsedData
NA == <<"N", "/", "A">>

EmptyData ==
    [processes |-> <<>>, networkConnections |-> <<>>, fileActivities |-> <<>>,
     dllActivities |-> <<>>, registryChanges |-> <<>>, userActivities |-> <<>>,
     threats |-> <<>>, dnsQueries |-> <<>>]

\* Array.prototype.unshift in place of push: the newest record comes first
PushFront(pd, cat, rec) == [pd EXCEPT ![cat] = <<rec>> \o @]
Push(pd, cat, rec) == [pd EXCEPT ![cat] = Append(@, rec)]

\* new Date().toISOString() at clock value t
DigitChar(n) ==
    CASE n = 0 -> "0" [] n = 1 -> "1" [] n = 2 -> "2" [] n = 3 -> "3"
      [] n = 4 -> "4" [] n = 5 -> "5" [] n = 6 -> "6" [] n = 7 -> "7"
      [] n = 8 -> "8" [] OTHER -> "9"
toISOString(t) == <<"T", "+", DigitChar(t)>>

\* JSON.parse(content): a file content is [kind, items]; kind "array" is a
\* JSON array of items, "value" a single non-array JSON value items[1],
\* "lines" two or more JSON documents separated by newlines (not one JSON
\* document), "garbage" text that is neither.
JSONparseOk(content) == content.kind \in {"array", "value"}
IsArray(content) == content.kind = "array"

\* ------------------------------------------------- SysmonLogParser (parse)
SysmonProcessName(event) ==
    IF TruthyS(Get(event, "Image")) THEN Pop(Split(event.Image, "\\")) ELSE NA

processProcessCreation(pd, event, t) ==
    Push(pd, "processes",
         [timestamp |-> OrS(Get(event, "UtcTime"), toISOString(t)),
          processId |-> GetN(event, "ProcessId"),
          parentProcessId |-> GetN(event, "ParentProcessId"),
          image |-> Get(event, "Image"),
          commandLine |-> Get(event, "CommandLine"),
          user |-> Get(event, "User"),
          processName |-> SysmonProcessName(event)])

processNetworkConnection(pd, event, t) ==
    Push(pd, "networkConnections",
         [timestamp |-> OrS(Get(event, "UtcTime"), toISOString(t)),
          sourceIp |-> Get(event, "SourceIp"),
          sourcePort |-> GetN(event, "SourcePort"),
          destinationIp |-> Get(event, "DestinationIp"),
          destinationPort |-> GetN(event, "DestinationPort"),
          protocol |-> Get(event, "Protocol"),
          processId |-> GetN(event, "ProcessId"),
          image |-> Get(event, "Image"),
          user |-> Get(event, "User"),
          processName |-> SysmonProcessName(event)])

SysmonAction(id) ==
    CASE id = 11 -> "File Created"
      [] id = 23 -> "File Deleted"
      [] id = 15 -> "File Stream Created"
      [] OTHER -> "EventID"

processFileActivity(pd, event, t) ==
    Push(pd, "fileActivities",
         [timestamp |-> OrS(Get(event, "UtcTime"), toISOString(t)),
          filePath |-> Get(event, "TargetFilename"),
          action |-> SysmonAction(event.EventID),
          activityType |-> SysmonAction(event.EventID),
          processId |-> GetN(event, "ProcessId"),
          image |-> Get(event, "Image"),
          user |-> Get(event, "User"),
          processName |-> SysmonProcessName(event)])

processDnsQuery(pd, event, t) ==
    Push(pd, "dnsQueries",
         [timestamp |-> OrS(Get(event, "UtcTime"), toISOString(t)),
          queryName |-> Get(event, "QueryName"),
          queryResults |-> Get(event, "QueryResults"),
          processId |-> GetN(event, "ProcessId"),
          image |-> Get(event, "Image"),
          user |-> Get(event, "User"),
          processName |-> SysmonProcessName(event)])

processSysmonEvent(pd, event, t) ==
    LET id == GetN(event, "EventID")
    IN  IF id = 1 THEN processProcessCreation(pd, event, t)
        ELSE IF id = 3 THEN processNetworkConnection(pd, event, t)
        ELSE IF id = 11 \/ id = 23 \/ id = 15 THEN processFileActivity(pd, event, t)
        ELSE IF id = 22 THEN processDnsQuery(pd, event, t)
        ELSE pd

\* reading a property of null throws a TypeError
ThrowsOnRead(event) == event = Null

\* events.forEach(...) inside the try block: an exception ends the loop, the
\* records pushed before it stay, and the catch block swallows it.
RECURSIVE SysmonForEach(_, _, _)
SysmonForEach(pd, events, t) ==
    IF events = <<>> THEN pd
    ELSE IF ThrowsOnRead(Head(events)) THEN pd
    ELSE SysmonForEach(processSysmonEvent(pd, Head(events), t), Tail(events), t)

\* result of a parse step: the new parsedData and whether an exception escaped
parseSysmonLogs(pd, content, t) ==
    IF JSONparseOk(content) /\ IsArray(content)
    THEN [pd |-> SysmonForEach(pd, content.items, t), threw |-> FALSE]
    ELSE [pd |-> pd, threw |-> FALSE]

\* ---------------------------------------------------- ElkLogParser (parse)
\* processImage.split('\\').pop().split('/').pop()
ElkProcessName(image) == Pop(Split(Pop(Split(image, "\\")), "/"))

RECURSIVE JoinComma(_)
JoinComma(ss) ==
    IF ss = <<>> THEN <<>>
    ELSE IF Len(ss) = 1 THEN ss[1]
    ELSE ss[1] \o <<",", " ">> \o JoinComma(Tail(ss))

\* event.dns.answers.map(a => a.data).join(', ')
ElkAnswers(event) ==
    IF "dns" \in DOMAIN event /\ "answers" \in DOMAIN event.dns
    THEN JoinComma([i \in 1..Len(event.dns.answers) |-> Get(event.dns.answers[i], "data")])
    ELSE NA

ElkTimestamp(event, t) ==
    OrS(Get(event, "@timestamp"), OrS(Get(event, "UtcTime"), toISOString(t)))

ElkImage(event) == OrS(Get(event, "Image"), Get2(event, "process", "executable"))
ElkPid(event) == OrN(GetN(event, "ProcessId"), GetN2(event, "process", "pid"))
ElkUser(event) == OrS(Get(event, "User"), Get2(event, "user", "name"))
ElkNameOrNA(image) == IF TruthyS(image) THEN ElkProcessName(image) ELSE NA

ElkProcess(pd, event, t) ==
    LET processImage == OrS(ElkImage(event), Get(event, "InitiatingProcessFileName"))
        processId == OrN(ElkPid(event), GetN(event, "InitiatingProcessId"))
    IN  IF TruthyS(processImage) /\ TruthyN(processId)
        THEN Push(pd, "processes",
                  [timestamp |-> ElkTimestamp(event, t),
                   processId |-> processId,
                   parentProcessId |->
                       OrN(GetN(event, "ParentProcessId"),
                           OrN(IF "process" \in DOMAIN event
                               THEN GetN2(event.process, "parent", "pid") ELSE NoNum,
                               GetN(event, "InitiatingProcessParentId"))),
                   image |-> processImage,
                   commandLine |->
                       OrS(Get(event, "CommandLine"),
                           OrS(Get2(event, "process", "command_line"),
                               Get(event, "InitiatingProcessCommandLine"))),
                   user |-> OrS(ElkUser(event), Get(event, "UserName")),
                   processName |-> ElkProcessName(processImage)])
        ELSE pd

ElkNetwork(pd, event, t) ==
    LET destIp == OrS(Get(event, "DestinationIp"), Get2(event, "destination", "ip"))
        sourceIp == OrS(Get(event, "SourceIp"), Get2(event, "source", "ip"))
    IN  IF TruthyS(destIp)
        THEN Push(pd, "networkConnections",
                  [timestamp |-> ElkTimestamp(event, t),
                   sourceIp |-> sourceIp,
                   sourcePort |-> OrN(GetN(event, "SourcePort"), GetN2(event, "source", "port")),
                   destinationIp |-> destIp,
                   destinationPort |->
                       OrN(GetN(event, "DestinationPort"), GetN2(event, "destination", "port")),
                   protocol |-> OrS(Get(event, "Protocol"), Get2(event, "network", "protocol")),
                   processId |-> ElkPid(event),
                   image |-> ElkImage(event),
                   user |-> ElkUser(event),
                   processName |-> ElkNameOrNA(ElkImage(event))])
        ELSE pd

ElkAction(event) ==
    IF GetN(event, "EventID") = 11 THEN "File Created"
    ELSE IF GetN(event, "EventID") = 23 THEN "File Deleted"
    ELSE IF TruthyA(GetA2(event, "event", "action")) THEN event.event.action
    ELSE "File Activity"

ElkFile(pd, event, t) ==
    LET filePath == OrS(Get(event, "TargetFilename"), Get2(event, "file", "path"))
    IN  IF TruthyS(filePath)
        THEN Push(pd, "fileActivities",
                  [timestamp |-> ElkTimestamp(event, t),
                   filePath |-> filePath,
                   action |-> ElkAction(event),
                   activityType |-> ElkAction(event),
                   processId |-> ElkPid(event),
                   image |-> ElkImage(event),
                   user |-> ElkUser(event),
                   processName |-> ElkNameOrNA(ElkImage(event))])
        ELSE pd

ElkDns(pd, event, t) ==
    LET dnsQuery == OrS(Get(event, "QueryName"), Get3(event, "dns", "question", "name"))
    IN  IF TruthyS(dnsQuery)
        THEN Push(pd, "dnsQueries",
                  [timestamp |-> ElkTimestamp(event, t),
                   queryName |-> dnsQuery,
                   queryResults |-> OrS(Get(event, "QueryResults"), ElkAnswers(event)),
                   processId |-> ElkPid(event),
                   image |-> ElkImage(event),
                   user |-> ElkUser(event),
                   processName |-> ElkNameOrNA(ElkImage(event))])
        ELSE pd

processGenericEvent(pd, event, t) ==
    ElkDns(ElkFile(ElkNetwork(ElkProcess(pd, event, t), event, t), event, t), event, t)

\* events.forEach(log => ...) outside any try block: an exception escapes
\* parseELKLogs; the records pushed before it stay in parsedData.
RECURSIVE ElkForEach(_, _, _)
ElkForEach(pd, events, t) ==
    IF events = <<>> THEN [pd |-> pd, threw |-> FALSE]
    ELSE IF ThrowsOnRead(Head(events)) THEN [pd |-> pd, threw |-> TRUE]
    ELSE LET log == Head(events)
             event == IF "_source" \in DOMAIN log THEN log["_source"] ELSE log
         IN  ElkForEach(processGenericEvent(pd, event, t), Tail(events), t)

\* the line-delimited fallback without its own try/catch
parseELKLogsUncaught(pd, content, t) ==
    IF JSONparseOk(content)
    THEN ElkForEach(pd, content.items, t)
    ELSE IF content.kind = "lines"
    THEN ElkForEach(pd, content.items, t)
    ELSE [pd |-> pd, threw |-> TRUE]

parseELKLogs(pd, content, t) ==
    IF JSONparseOk(content)
    THEN ElkForEach(pd, content.items, t)
    ELSE IF content.kind = "lines"
    THEN ElkForEach(pd, content.items, t)
    ELSE [pd |-> pd, threw |-> FALSE]

\* ----------------------------------------------- DefenderLogParser (parse)
DefenderFilePath(event) == OrS(Get(event, "FileName"), Get(event, "FolderPath"))

DefenderEvent(pd, event, t) ==
    LET timestamp == OrS(Get(event, "TimeGenerated"), toISOString(t))
        image == Get(event, "InitiatingProcessFileName")
        processName == OrS(image, NA)
        user == OrS(Get(event, "UserName"), NA)
        pid == GetN(event, "InitiatingProcessId")
        type == GetA(event, "EventType")
    IN  IF type = "ProcessCreated"
        THEN Push(pd, "processes",
                  [timestamp |-> timestamp, processId |-> pid,
                   parentProcessId |-> GetN(event, "InitiatingProcessParentId"),
                   image |-> image,
                   commandLine |-> Get(event, "InitiatingProcessCommandLine"),
                   user |-> user, processName |-> processName])
        ELSE IF type = "NetworkConnection"
        THEN Push(pd, "networkConnections",
                  [timestamp |-> timestamp, sourceIp |-> Get(event, "SourceIp"),
                   sourcePort |-> GetN(event, "SourcePort"),
                   destinationIp |-> Get(event, "DestinationIp"),
                   destinationPort |-> GetN(event, "DestinationPort"),
                   protocol |-> Get(event, "Protocol"), processId |-> pid,
                   image |-> image, user |-> user, processName |-> processName])
        ELSE IF type = "FileCreated" \/ type = "FileDeleted"
        THEN Push(pd, "fileActivities",
                  [timestamp |-> timestamp, filePath |-> DefenderFilePath(event),
                   action |-> IF type = "FileCreated" THEN "File Created" ELSE "File Deleted",
                   activityType |-> type, processId |-> pid,
                   image |-> image, user |-> user, processName |-> processName])
        ELSE IF type = "DnsQuery"
        THEN Push(pd, "dnsQueries",
                  [timestamp |-> timestamp, queryName |-> Get(event, "QueryName"),
                   queryResults |-> Get(event, "QueryResults"), processId |-> pid,
                   image |-> image, user |-> user, processName |-> processName])
        ELSE IF type = "Detection"
        THEN Push(pd, "threats",
                  [timestamp |-> timestamp, threatName |-> Get(event, "ThreatName"),
                   severity |-> GetA(event, "Severity"),
                   filePath |-> DefenderFilePath(event),
                   processName |-> OrS(image, processName),
                   description |-> Get(event, "ThreatName"),
                   type |-> "defender_detection"])
        ELSE IF type = "RegistryValueSet"
        THEN Push(pd, "registryChanges",
                  [timestamp |-> timestamp, key |-> Get(event, "RegistryKey"),
                   valueName |-> Get(event, "RegistryValueName"),
                   valueData |-> Get(event, "RegistryValueData"), processId |-> pid,
                   image |-> image, user |-> user, processName |-> processName])
        ELSE pd

RECURSIVE DefenderForEach(_, _, _)
DefenderForEach(pd, events, t) ==
    IF events = <<>> THEN pd
    ELSE IF ThrowsOnRead(Head(events)) THEN pd
    ELSE DefenderForEach(DefenderEvent(pd, Head(events), t), Tail(events), t)

parseDefenderLogs(pd, content, t) ==
    IF JSONparseOk(content) /\ IsArray(content)
    THEN [pd |-> DefenderForEach(pd, content.items, t), threw |-> FALSE]
    ELSE [pd |-> pd, threw |-> FALSE]

\* -------------------------------------------------- WazuhLogParser (parse)
\* a missing level is NoNum
mapWazuhLevel(level) ==
    IF ~TruthyN(level) THEN "low"
    ELSE IF level >= 12 THEN "high"
    ELSE IF level >= 7 THEN "medium"
    ELSE IF level >= 3 THEN "low"
    ELSE "informational"

\* alert.data?.audit?.event, or the empty object
WazuhAuditEvent(alert) ==
    IF "data" \in DOMAIN alert /\ "audit" \in DOMAIN alert.data
       /\ "event" \in DOMAIN alert.data.audit
    THEN alert.data.audit.event ELSE [none |-> TRUE]

WazuhThreat(pd, alert, t) ==
    LET rule == IF "rule" \in DOMAIN alert THEN alert.rule ELSE [none |-> TRUE]
        ev == WazuhAuditEvent(alert)
    IN  IF TruthyS(Get(rule, "id")) /\ TruthyS(Get(rule, "description"))
        THEN Push(pd, "threats",
                  [timestamp |-> OrS(Get(alert, "timestamp"), toISOString(t)),
                   threatName |-> rule.description,
                   rule |-> rule.id,
                   severity |-> mapWazuhLevel(GetN(rule, "level")),
                   description |-> OrS(Get(alert, "full_log"), rule.description),
                   type |-> "wazuh_alert",
                   processName |->
                       OrS(Get2(ev, "process", "name"),
                           OrS(Get2(alert, "data", "command"), NA))])
        ELSE pd

WazuhFim(pd, alert, t) ==
    LET ev == WazuhAuditEvent(alert)
    IN  IF TruthyS(Get(ev, "file")) /\ TruthyA(GetA(ev, "action"))
        THEN Push(pd, "fileActivities",
                  [timestamp |-> OrS(Get(alert, "timestamp"), toISOString(t)),
                   filePath |-> ev.file,
                   action |-> ev.action,
                   activityType |-> <<"wazuh-fim-", ev.action>>,
                   processId |-> GetN2(ev, "process", "pid"),
                   image |-> Get2(ev, "process", "name"),
                   user |-> Get(ev, "user"),
                   processName |-> OrS(Get2(ev, "process", "name"), NA)])
        ELSE pd

RECURSIVE WazuhForEach(_, _, _)
WazuhForEach(pd, alerts, t) ==
    IF alerts = <<>> THEN pd
    ELSE IF ThrowsOnRead(Head(alerts)) THEN pd
    ELSE WazuhForEach(WazuhFim(WazuhThreat(pd, Head(alerts), t), Head(alerts), t),
                      Tail(alerts), t)

parseWazuhLogs(pd, content, t) ==
    IF JSONparseOk(content) /\ IsArray(content)
    THEN [pd |-> WazuhForEach(pd, content.items, t), threw |-> FALSE]
    ELSE [pd |-> pd, threw |-> FALSE]

\* --------------------------------------------- generateVisualizationData
\* The template strings are kept as records: `kind` (resp. `label`) is the
\* fixed text an indicator (resp. attack-chain entry) starts with, `step` the
\* number printed in front of an attack-chain entry, the other fields the
\* interpolated values.
EmptyVis ==
    [threatIndicators |-> <<>>, attackChain |-> <<>>, fileActivities |-> <<>>,
     connections |-> <<>>, dnsQueries |-> <<>>, step |-> 1, threw |-> FALSE]

\* { ...rec, process: p }
WithProcess(rec, p) == [f \in DOMAIN rec \cup {"process"} |->
                            IF f = "process" THEN p ELSE rec[f]]

C2Indicator(conn, processName) ==
    [kind |-> "Command and Control Connection", ip |-> conn.destinationIp,
     port |-> conn.destinationPort, process |-> processName]
\* the number printed is the counter after the increment
C2EntryPreIncrement(step, conn, processName) ==
    [step |-> step + 1, label |-> "Command and Control (C2)", ip |-> conn.destinationIp,
     port |-> conn.destinationPort, process |-> processName]
C2Entry(step, conn, processName) ==
    [step |-> step, label |-> "Command and Control (C2)", ip |-> conn.destinationIp,
     port |-> conn.destinationPort, process |-> processName]

\* every connection is reported, internal or not
C2ConnUnfiltered(v, conn) ==
    LET processName == OrS(conn.processName, NA)
        w == [v EXCEPT !.threatIndicators = Append(@, C2Indicator(conn, processName)),
                       !.attackChain = Append(@, C2Entry(v.step, conn, processName)),
                       !.step = @ + 1]
    IN  [w EXCEPT !.connections = Append(@, WithProcess(conn, processName))]

\* the connection loop shared by the ELK and the Defender detector
C2Conn(v, conn) ==
    LET processName == OrS(conn.processName, NA)
        w == IF ~isInternalIP(conn.destinationIp)
             THEN [v EXCEPT !.threatIndicators = Append(@, C2Indicator(conn, processName)),
                            !.attackChain = Append(@, C2Entry(v.step, conn, processName)),
                            !.step = @ + 1]
             ELSE v
    IN  [w EXCEPT !.connections = Append(@, WithProcess(conn, processName))]

\* the SMB rule without the test that the destination is internal
SysmonConnAnySmb(v, conn) ==
    LET processName == OrS(conn.processName, NA)
        lateral == [v EXCEPT !.threatIndicators =
                                Append(@, [kind |-> "Lateral Movement - SMB",
                                           src |-> conn.sourceIp, dst |-> conn.destinationIp,
                                           process |-> processName]),
                            !.attackChain =
                                Append(@, [step |-> v.step, label |-> "Lateral Movement",
                                           src |-> conn.sourceIp, dst |-> conn.destinationIp]),
                            !.step = @ + 1]
        w == IF conn.destinationPort = 445 THEN lateral
             ELSE IF ~isInternalIP(conn.destinationIp)
             THEN [v EXCEPT !.threatIndicators = Append(@, C2Indicator(conn, processName)),
                            !.attackChain = Append(@, C2Entry(v.step, conn, processName)),
                            !.step = @ + 1]
             ELSE v
    IN  [w EXCEPT !.connections = Append(@, WithProcess(conn, processName))]

SysmonConn(v, conn) ==
    LET processName == OrS(conn.processName, NA)
        w == IF ~isInternalIP(conn.destinationIp)
             THEN [v EXCEPT !.threatIndicators = Append(@, C2Indicator(conn, processName)),
                            !.attackChain = Append(@, C2Entry(v.step, conn, processName)),
                            !.step = @ + 1]
             ELSE IF isInternalIP(conn.destinationIp) /\ conn.destinationPort = 445
             THEN [v EXCEPT !.threatIndicators =
                                Append(@, [kind |-> "Lateral Movement - SMB",
                                           src |-> conn.sourceIp, dst |-> conn.destinationIp,
                                           process |-> processName]),
                            !.attackChain =
                                Append(@, [step |-> v.step, label |-> "Lateral Movement",
                                           src |-> conn.sourceIp, dst |-> conn.destinationIp]),
                            !.step = @ + 1]
             ELSE v
    IN  [w EXCEPT !.connections = Append(@, WithProcess(conn, processName))]

Temp == <<"T", "e", "m", "p">>

\* file.filePath.includes('Temp') throws a TypeError when filePath is undefined
IncludesThrows(file) == file.action = "File Created" /\ file.filePath = Undef

SysmonFile(v, file) ==
    LET processName == OrS(file.processName, NA)
    IN  IF IncludesThrows(file) THEN [v EXCEPT !.threw = TRUE]
        ELSE LET w == IF file.action = "File Created" /\ Includes(file.filePath, Temp)
                      THEN [v EXCEPT !.threatIndicators =
                                         Append(@, [kind |-> "Exfiltration Staging",
                                                    path |-> file.filePath,
                                                    process |-> processName,
                                                    user |-> file.user]),
                                     !.attackChain =
                                         Append(@, [step |-> v.step, label |-> "Exfiltration",
                                                    path |-> file.filePath]),
                                     !.step = @ + 1]
                      ELSE IF file.action = "File Deleted"
                      THEN [v EXCEPT !.threatIndicators =
                                         Append(@, [kind |-> "Evidence Tampering",
                                                    path |-> file.filePath,
                                                    process |-> processName,
                                                    user |-> file.user]),
                                     !.attackChain =
                                         Append(@, [step |-> v.step,
                                                    label |-> "Evidence Tampering",
                                                    path |-> file.filePath]),
                                     !.step = @ + 1]
                      ELSE v
             IN  [w EXCEPT !.fileActivities = Append(@, WithProcess(file, processName))]

\* the Defender file loop with the Sysmon rule for deleted files
DefenderFileWithTampering(v, file) ==
    LET processName == OrS(file.processName, NA)
    IN  IF IncludesThrows(file) THEN [v EXCEPT !.threw = TRUE]
        ELSE LET w == IF file.action = "File Created" /\ Includes(file.filePath, Temp)
                      THEN [v EXCEPT !.threatIndicators =
                                         Append(@, [kind |-> "Exfiltration Staging",
                                                    path |-> file.filePath,
                                                    process |-> processName]),
                                     !.attackChain =
                                         Append(@, [step |-> v.step, label |-> "Exfiltration",
                                                    path |-> file.filePath]),
                                     !.step = @ + 1]
                      ELSE IF file.action = "File Deleted"
                      THEN [v EXCEPT !.threatIndicators =
                                         Append(@, [kind |-> "Evidence Tampering",
                                                    path |-> file.filePath,
                                                    process |-> processName]),
                                     !.attackChain =
                                         Append(@, [step |-> v.step,
                                                    label |-> "Evidence Tampering",
                                                    path |-> file.filePath]),
                                     !.step = @ + 1]
                      ELSE v
             IN  [w EXCEPT !.fileActivities = Append(@, WithProcess(file, processName))]

DefenderFile(v, file) ==
    LET processName == OrS(file.processName, NA)
    IN  IF IncludesThrows(file) THEN [v EXCEPT !.threw = TRUE]
        ELSE LET w == IF file.action = "File Created" /\ Includes(file.filePath, Temp)
                      THEN [v EXCEPT !.threatIndicators =
                                         Append(@, [kind |-> "Exfiltration Staging",
                                                    path |-> file.filePath,
                                                    process |-> processName]),
                                     !.attackChain =
                                         Append(@, [step |-> v.step, label |-> "Exfiltration",
                                                    path |-> file.filePath]),
                                     !.step = @ + 1]
                      ELSE v
             IN  [w EXCEPT !.fileActivities = Append(@, WithProcess(file, processName))]

\* the pass-through file loop of the ELK and the Wazuh detector
PlainFile(v, file) ==
    [v EXCEPT !.fileActivities = Append(@, WithProcess(file, OrS(file.processName, NA)))]

\* the pass-through connection loop of the Wazuh detector
PlainConn(v, conn) ==
    [v EXCEPT !.connections = Append(@, WithProcess(conn, OrS(conn.processName, NA)))]

ThreatObject(t) ==
    [threatName |-> t.threatName, description |-> t.description,
     processName |-> t.processName, severity |-> t.severity]

WazuhThreatStep(v, t) ==
    [v EXCEPT !.threatIndicators = Append(@, ThreatObject(t)),
              !.attackChain = Append(@, [step |-> v.step, threatName |-> t.threatName,
                                         description |-> t.description]),
              !.step = @ + 1]

\* list.forEach(item => ...) in a detector; an exception ends the pass
RECURSIVE DetectLoop(_, _, _)
DetectLoop(which, v, list) ==
    IF list = <<>> \/ v.threw THEN v
    ELSE LET item == Head(list)
             w == CASE which = "C2Conn" -> C2Conn(v, item)
                    [] which = "SysmonConn" -> SysmonConn(v, item)
                    [] which = "PlainConn" -> PlainConn(v, item)
                    [] which = "SysmonFile" -> SysmonFile(v, item)
                    [] which = "DefenderFile" -> DefenderFile(v, item)
                    [] which = "PlainFile" -> PlainFile(v, item)
                    [] OTHER -> WazuhThreatStep(v, item)
         IN  DetectLoop(which, w, Tail(list))

\* parsedData.dnsQueries.map(dns => ({ ...dns, process: dns.processName }))
DnsMap(v, dns) ==
    IF v.threw THEN v
    ELSE [v EXCEPT !.dnsQueries = [i \in 1..Len(dns) |-> WithProcess(dns[i], dns[i].processName)]]

ElkGenerate(pd) ==
    DnsMap(DetectLoop("PlainFile",
                      DetectLoop("C2Conn", EmptyVis, pd.networkConnections),
                      pd.fileActivities),
           pd.dnsQueries)

\* the detections get chain entries as the Wazuh alerts do
DefenderThreatsChained(v, threats) ==
    IF v.threw THEN v
    ELSE [v EXCEPT !.threatIndicators =
                       @ \o [i \in 1..Len(threats) |-> ThreatObject(threats[i])],
                   !.attackChain =
                       @ \o [i \in 1..Len(threats) |->
                                [step |-> v.step + i - 1,
                                 threatName |-> threats[i].threatName,
                                 description |-> threats[i].description]],
                   !.step = @ + Len(threats)]

DefenderThreats(v, threats) ==
    IF v.threw THEN v
    ELSE [v EXCEPT !.threatIndicators =
                       @ \o [i \in 1..Len(threats) |-> ThreatObject(threats[i])]]

DefenderGenerate(pd) ==
    DnsMap(DefenderThreats(DetectLoop("DefenderFile",
                                      DetectLoop("C2Conn", EmptyVis, pd.networkConnections),
                                      pd.fileActivities),
                           pd.threats),
           pd.dnsQueries)

WazuhGenerate(pd) ==
    DnsMap(DetectLoop("PlainConn",
                      DetectLoop("PlainFile",
                                 DetectLoop("WazuhThreat", EmptyVis, pd.threats),
                                 pd.fileActivities),
                      pd.networkConnections),
           pd.dnsQueries)

SysmonGenerate(pd) ==
    DnsMap(DetectLoop("SysmonFile",
                      DetectLoop("SysmonConn", EmptyVis, pd.networkConnections),
                      pd.fileActivities),
           pd.dnsQueries)

\* ------------------------------------------------------------------ inputs
ExtIp == <<"2","0","3",".","0",".","1","1","3",".","5">>
IntIp == <<"1","0",".","0",".","0",".","5">>
LanIp == <<"1","9","2",".","1","6","8",".","1",".","1">>
TempPath == <<"C",":","\\","T","e","m","p","\\","a">>
LogPath == <<"C",":","\\","e",".","l","o","g">>
CmdImage == <<"C",":","\\","W","\\","c","m","d",".","e","x","e">>
BashImage == <<"/","b","i","n","/","s","h">>
Host == <<"a",".","i","o">>
Ts1 == <<"t","1">>
Ts2 == <<"t","2">>
Trojan == <<"T","r","o","j">>
RuleId == <<"5","7","1","0">>
RuleDesc == <<"s","s","h","d">>

Array(items) == [kind |-> "array", items |-> items]
Value(item) == [kind |-> "value", items |-> <<item>>]
Lines(items) == [kind |-> "lines", items |-> items]
Garbage == [kind |-> "garbage", items |-> <<>>]

\* Sysmon events
sNetExt == [EventID |-> 3, DestinationIp |-> ExtIp, DestinationPort |-> 443,
            Image |-> CmdImage, UtcTime |-> Ts1]
sNetSmb == [EventID |-> 3, SourceIp |-> LanIp, DestinationIp |-> IntIp,
            DestinationPort |-> 445, UtcTime |-> Ts1]
sNetInt == [EventID |-> 3, DestinationIp |-> LanIp, DestinationPort |-> 80]
sNetNoIp == [EventID |-> 3, DestinationPort |-> 445, UtcTime |-> Ts1]
sFileTemp == [EventID |-> 11, TargetFilename |-> TempPath, Image |-> CmdImage,
              UtcTime |-> Ts1]
sFilePlain == [EventID |-> 11, TargetFilename |-> LogPath, UtcTime |-> Ts2]
sFileNoPath == [EventID |-> 11, UtcTime |-> Ts1]
sFileDel == [EventID |-> 23, TargetFilename |-> LogPath, UtcTime |-> Ts1]
sFileDelNoPath == [EventID |-> 23, UtcTime |-> Ts1]
sDns == [EventID |-> 22, QueryName |-> Host, UtcTime |-> Ts1]
sDnsNoName == [EventID |-> 22, Image |-> CmdImage, UtcTime |-> Ts1]
sProc == [EventID |-> 1, Image |-> CmdImage, ProcessId |-> 4, UtcTime |-> Ts1]
sProcNoPid == [EventID |-> 1, Image |-> BashImage, UtcTime |-> Ts1]
sOther == [EventID |-> 5, DestinationIp |-> ExtIp, UtcTime |-> Ts1]

SysmonFiles ==
    {Array(<<sNetExt>>),
     Array(<<sNetSmb, sFileTemp>>),
     Array(<<sFileDel, sNetInt, sOther>>),
     Array(<<sNetNoIp, sProcNoPid, sDnsNoName>>),
     Array(<<sFileNoPath>>),
     Array(<<sDns, Null, sNetExt>>),
     Array(<<sFilePlain, sProc, sFileDelNoPath>>),
     Value(sNetExt),
     Lines(<<sNetExt, sDns>>),
     Garbage}

\* ELK events
eNetExt == ("@timestamp" :> Ts1) @@
           [DestinationIp |-> ExtIp, DestinationPort |-> 443, Image |-> CmdImage,
            ProcessId |-> 4]
eEcs == ("@timestamp" :> Ts1) @@
        [destination |-> [ip |-> IntIp, port |-> 445],
         process |-> [executable |-> BashImage, pid |-> 7],
         file |-> [path |-> TempPath], event |-> [action |-> "creation"]]
eFileCreated == [EventID |-> 11, TargetFilename |-> TempPath, UtcTime |-> Ts1]
eFileDeleted == [EventID |-> 23, TargetFilename |-> LogPath]
eDns == ("@timestamp" :> Ts1) @@
        [dns |-> [question |-> [name |-> Host],
                  answers |-> <<[data |-> IntIp], [data |-> ExtIp]>>]]
eWrapped == [_source |-> eNetExt]
eNoPid == [Image |-> CmdImage, UtcTime |-> Ts1]
eEmptyFields == [DestinationIp |-> <<>>, TargetFilename |-> <<>>, QueryName |-> <<>>,
                 ProcessId |-> 0, Image |-> CmdImage, UtcTime |-> Ts1]

ElkFiles ==
    {Array(<<eNetExt>>),
     Array(<<eEcs, eFileCreated>>),
     Array(<<eNetExt, Null, eEcs>>),
     Array(<<eNoPid, eEmptyFields>>),
     Value(eWrapped),
     Lines(<<eDns, eFileDeleted>>),
     Lines(<<eNetExt, Null>>),
     Garbage}

\* Defender events
dNetExt == [EventType |-> "NetworkConnection", DestinationIp |-> ExtIp,
            DestinationPort |-> 443, InitiatingProcessFileName |-> CmdImage,
            TimeGenerated |-> Ts1]
dNetSmb == [EventType |-> "NetworkConnection", SourceIp |-> LanIp,
            DestinationIp |-> IntIp, DestinationPort |-> 445, TimeGenerated |-> Ts1]
dNetNoIp == [EventType |-> "NetworkConnection", TimeGenerated |-> Ts1]
dFileTemp == [EventType |-> "FileCreated", FileName |-> TempPath, TimeGenerated |-> Ts1]
dFileFolder == [EventType |-> "FileCreated", FolderPath |-> LogPath]
dFileNoPath == [EventType |-> "FileCreated", TimeGenerated |-> Ts1]
dFileDel == [EventType |-> "FileDeleted", FileName |-> TempPath, TimeGenerated |-> Ts1]
dFileDelNoPath == [EventType |-> "FileDeleted", TimeGenerated |-> Ts1]
dDetection == [EventType |-> "Detection", ThreatName |-> Trojan, Severity |-> "High",
               TimeGenerated |-> Ts1]
dDns == [EventType |-> "DnsQuery", QueryName |-> Host, TimeGenerated |-> Ts1]
dDnsNoName == [EventType |-> "DnsQuery", TimeGenerated |-> Ts1]
dProc == [EventType |-> "ProcessCreated", InitiatingProcessId |-> 4,
          InitiatingProcessFileName |-> CmdImage, TimeGenerated |-> Ts1]
dProcNoPid == [EventType |-> "ProcessCreated", TimeGenerated |-> Ts1]
dReg == [EventType |-> "RegistryValueSet", RegistryKey |-> Host, TimeGenerated |-> Ts1]
dOther == [EventType |-> "Logon", DestinationIp |-> ExtIp, TimeGenerated |-> Ts1]

DefenderFiles ==
    {Array(<<dNetExt, dDetection>>),
     Array(<<dNetSmb, dFileTemp, dDetection>>),
     Array(<<dFileDel, dFileFolder, dOther>>),
     Array(<<dNetNoIp, dProcNoPid, dDnsNoName, dFileDelNoPath>>),
     Array(<<dFileNoPath>>),
     Array(<<dDns, dProc, Null, dNetExt>>),
     Array(<<dReg>>),
     Value(dDetection),
     Garbage}

\* Wazuh alerts
wAlert == [timestamp |-> Ts1, rule |-> [id |-> RuleId, description |-> RuleDesc, level |-> 12]]
wAlertNoLevel == [rule |-> [id |-> RuleId, description |-> Trojan]]
wAlertLow == [timestamp |-> Ts1, full_log |-> Host,
              rule |-> [id |-> RuleId, description |-> RuleDesc, level |-> 2]]
wNoId == [timestamp |-> Ts1, rule |-> [description |-> RuleDesc, level |-> 7]]
wNoDesc == [timestamp |-> Ts1, rule |-> [id |-> RuleId, description |-> <<>>, level |-> 7]]
wFim == [timestamp |-> Ts1,
         data |-> [audit |-> [event |-> [file |-> TempPath, action |-> "File Created",
                                         process |-> [name |-> BashImage, pid |-> 9]]]]]
wAlertFim == [timestamp |-> Ts1,
              rule |-> [id |-> RuleId, description |-> RuleDesc, level |-> 5],
              data |-> [command |-> CmdImage,
                        audit |-> [event |-> [file |-> LogPath, action |-> "File Deleted"]]]]
wFimNoFile == [timestamp |-> Ts1, data |-> [audit |-> [event |-> [action |-> "deleted"]]]]

WazuhFiles ==
    {Array(<<wAlert>>),
     Array(<<wAlertNoLevel, wFim>>),
     Array(<<wAlertLow, wNoId, wAlertFim>>),
     Array(<<wNoDesc, wFimNoFile>>),
     Array(<<wAlert, Null, wAlertLow>>),
     Value(wAlert),
     Garbage}

\* alerts of every rule level, and one whose rule has no level
LevelAlerts ==
    {[rule |-> [id |-> RuleId, description |-> RuleDesc, level |-> l]] : l \in 0..MaxLevel}
      \cup {[rule |-> [id |-> RuleId, description |-> RuleDesc]]}

\* String(n) of a natural number
RECURSIVE Str(_)
Str(n) == IF n < 10 THEN <<DigitChar(n)>> ELSE Str(n \div 10) \o <<DigitChar(n % 10)>>

RECURSIVE Join(_, _)
Join(parts, sep) ==
    IF Len(parts) = 0 THEN <<>>
    ELSE IF Len(parts) = 1 THEN parts[1]
    ELSE parts[1] \o <<sep>> \o Join(Tail(parts), sep)

\* first and second parts of the addresses: the octets at and around the edges
\* of the private ranges, and parts that only begin with such an octet
FirstOctets == {0, 9, 10, 11, 127, 171, 172, 173, 191, 192, 193}
SecondOctets == {0, 15, 16, 17, 30, 31, 32, 167, 168, 169}
FirstParts == {Str(n) : n \in FirstOctets} \cup {<<"1","0","x">>, <<"x","1","0">>, <<>>}
SecondParts == {Str(n) : n \in SecondOctets} \cup {<<"1","6","x">>, <<"e","v","i","l">>}

\* the strings handed to the classifier: four-part addresses, addresses of
\* three and five parts, IPv6 addresses, the empty string and no string
Addresses ==
    {Join(<<a, b, <<"0">>, d>>, ".") : a \in FirstParts, b \in SecondParts,
                                       d \in {<<"1">>, <<"c","o","m">>}}
      \cup {Join(<<a, b, <<"1">>>>, ".") : a \in {Str(10), Str(172)}, b \in {Str(16)}}
      \cup {Join(<<a, b, <<"0">>, <<"0">>, <<"1">>>>, ".") :
                a \in {Str(10), Str(192)}, b \in {Str(168)}}
      \cup {Loopback4, Loopback6, <<"f","d","0","0",":",":","1">>,
            <<"f","e","8","0",":",":","1">>, <<"1","0">>, <<>>, Undef}

Adapters == {"elk", "defender", "wazuh", "sysmon"}
Formats == Adapters

FilesOf(a) ==
    CASE a = "elk" -> ElkFiles
      [] a = "defender" -> DefenderFiles
      [] a = "wazuh" -> WazuhFiles
      [] OTHER -> SysmonFiles

\* the file of a repeated analysis: it yields chain entries, and one of its
\* events carries no timestamp
RerunFilesOf(a) ==
    CASE a = "elk" -> {Array(<<eNetExt, eFileDeleted>>)}
      [] a = "defender" -> {Array(<<dNetExt, dFileFolder, dDetection>>)}
      [] a = "wazuh" -> {Array(<<wAlertNoLevel, wFim, wAlertFim>>)}
      [] OTHER -> {Array(<<sFileDel, sNetInt, sNetExt>>)}

\* the files of overlapping analyses: each gives records of its own
OverlapFilesOf(a) ==
    CASE a = "elk" -> {Array(<<eNetExt>>), Array(<<eFileCreated>>)}
      [] a = "defender" -> {Array(<<dNetExt>>), Array(<<dFileTemp>>)}
      [] a = "wazuh" -> {Array(<<wAlert>>), Array(<<wFim>>)}
      [] OTHER -> {Array(<<sNetExt>>), Array(<<sFileDel>>)}

RECURSIVE SeqsUpTo(_, _)
SeqsUpTo(S, n) ==
    IF n = 0 THEN {<<>>}
    ELSE LET shorter == SeqsUpTo(S, n - 1)
         IN  shorter \cup {Append(q, f) : q \in shorter, f \in S}

\* ----------------------------------------------------------- state machine
VARIABLES
    adapter,     \* the class of the parser instance
    parsedData,  \* this.parsedData
    calls,       \* the parseLogs calls made on the instance, by call number
    started,     \* number of parseLogs calls made so far
    now,         \* the clock read by new Date()
    caller,      \* what the host application does: its files and how often it calls
    probe        \* the latest direct call of a helper method: its argument and result

vars == <<adapter, parsedData, calls, started, now, caller, probe>>

CallIds == 1..MaxRuns
NoBundle == [none |-> TRUE]
\* overlapped records that another call was in flight together with this one
NoProbe == [fn |-> "none"]
IdleCall == [pc |-> "idle", files |-> <<>>, format |-> "", idx |-> 0,
             threw |-> FALSE, bundle |-> NoBundle, overlapped |-> FALSE]

\* overlap is the number of unfinished calls the caller starts a new one over,
\* batch the largest number of files it submits
InitWith(pool, formats, runs, overlap, batch) ==
    /\ adapter \in Adapters
    /\ parsedData = EmptyData
    /\ calls = [c \in CallIds |-> IdleCall]
    /\ started = 0
    /\ now = 0
    /\ caller = [files |-> pool[adapter], formats |-> formats[adapter], runs |-> runs,
                 overlap |-> overlap, batch |-> batch]
    /\ probe = NoProbe

\* one analysis per instance, over the full file pool
Init == InitWith([a \in Adapters |-> FilesOf(a)], [a \in Adapters |-> Formats], 1, 0,
                 MaxFiles)

\* repeated analyses on one instance
InitRerun ==
    InitWith([a \in Adapters |-> RerunFilesOf(a)],
             [a \in Adapters |-> {a, IF a = "elk" THEN "sysmon" ELSE "elk"}], MaxRuns, 0,
             MaxFiles)

\* analyses started while the one before is still suspended; with two files
\* in a batch the second call can start between the first call's files
InitOverlap ==
    InitWith([a \in Adapters |-> OverlapFilesOf(a)], [a \in Adapters |-> {a}], MaxRuns, 1, 2)

InFlight(c) == calls[c].pc \in {"reading", "parsing"}

\* the calls after call c has been started as `call`
Started(c, call) ==
    [d \in CallIds |->
        IF d = c THEN [call EXCEPT !.overlapped = \E e \in CallIds : InFlight(e)]
        ELSE IF InFlight(d)
        THEN [calls[d] EXCEPT !.overlapped = TRUE]
        ELSE calls[d]]

\* parseByFormat that parses whatever the declared format is
parseByFormatAnyTag(a, pd, content, format, t) ==
    CASE a = "elk" -> parseELKLogs(pd, content, t)
      [] a = "defender" -> parseDefenderLogs(pd, content, t)
      [] a = "wazuh" -> parseWazuhLogs(pd, content, t)
      [] OTHER -> parseSysmonLogs(pd, content, t)

\* parseByFormat(content, format) of the instance's class
parseByFormat(a, pd, content, format, t) ==
    IF format # a THEN [pd |-> pd, threw |-> FALSE]
    ELSE CASE a = "elk" -> parseELKLogs(pd, content, t)
           [] a = "defender" -> parseDefenderLogs(pd, content, t)
           [] a = "wazuh" -> parseWazuhLogs(pd, content, t)
           [] OTHER -> parseSysmonLogs(pd, content, t)

generateVisualizationData(a, pd) ==
    CASE a = "elk" -> ElkGenerate(pd)
      [] a = "defender" -> DefenderGenerate(pd)
      [] a = "wazuh" -> WazuhGenerate(pd)
      [] OTHER -> SysmonGenerate(pd)

\* the object returned by generateVisualizationData
Bundle(v) ==
    [aptPatterns |-> [threatIndicators |-> v.threatIndicators,
                      attackChain |-> v.attackChain],
     fileMap |-> [fileActivities |-> v.fileActivities],
     networkMap |-> [connections |-> v.connections, dnsQueries |-> v.dnsQueries]]

\* return this.generateVisualizationData(): the call ends with a bundle, or
\* with the exception the detector threw
Finish(call, pd) ==
    LET v == generateVisualizationData(adapter, pd)
    IN  IF v.threw THEN [call EXCEPT !.pc = "failed", !.threw = TRUE]
        ELSE [call EXCEPT !.pc = "done", !.bundle = Bundle(v)]

\* parseLogs that keeps the lists of the previous analysis
StartCallNoReset(c) ==
    /\ c = started + 1
    /\ started < caller.runs
    /\ Cardinality({d \in CallIds : InFlight(d)}) <= caller.overlap
    /\ \E format \in caller.formats, files \in SeqsUpTo(caller.files, caller.batch) :
          LET call == [IdleCall EXCEPT !.files = files, !.format = format]
          IN  calls' = Started(c, IF files = <<>> THEN Finish(call, parsedData)
                                  ELSE [call EXCEPT !.pc = "reading", !.idx = 1])
    /\ started' = c
    /\ UNCHANGED <<adapter, parsedData, now, caller, probe>>

\* parseLogs(files, format) up to its first await: the reset, and for an
\* empty batch the whole call
StartCall(c) ==
    /\ c = started + 1
    /\ started < caller.runs
    /\ Cardinality({d \in CallIds : InFlight(d)}) <= caller.overlap
    /\ \E format \in caller.formats, files \in SeqsUpTo(caller.files, caller.batch) :
          LET call == [IdleCall EXCEPT !.files = files, !.format = format]
          IN  calls' = Started(c, IF files = <<>> THEN Finish(call, EmptyData)
                                  ELSE [call EXCEPT !.pc = "reading", !.idx = 1])
    /\ started' = c
    /\ parsedData' = EmptyData
    /\ UNCHANGED <<adapter, now, caller, probe>>

\* reader.onload: readFile resolves and the caller goes on into parseByFormat
FileLoaded(c) ==
    /\ calls[c].pc = "reading"
    /\ LET r == parseByFormat(adapter, parsedData, calls[c].files[calls[c].idx],
                              calls[c].format, now)
       IN  /\ parsedData' = r.pd
           /\ calls' = [calls EXCEPT ![c].pc = "parsing", ![c].threw = r.threw]
    /\ UNCHANGED <<adapter, started, now, caller, probe>>

\* the FileReader fires its error event: readFile registered onload only and
\* its promise has no reject path, so the promise never settles and the call
\* stays suspended at its await
ReadFails(c) ==
    /\ calls[c].pc = "reading"
    /\ calls' = [calls EXCEPT ![c].pc = "stuck"]
    /\ UNCHANGED <<adapter, parsedData, started, now, caller, probe>>

\* the await of parseByFormat's promise settles: the exception is rethrown,
\* or the loop reads the next file, or the batch is over and detection runs
Resume(c) ==
    /\ calls[c].pc = "parsing"
    /\ calls' = [calls EXCEPT ![c] =
                    IF @.threw THEN [@ EXCEPT !.pc = "failed"]
                    ELSE IF @.idx < Len(@.files)
                    THEN [@ EXCEPT !.pc = "reading", !.idx = @ + 1]
                    ELSE Finish(@, parsedData)]
    /\ UNCHANGED <<adapter, parsedData, started, now, caller, probe>>

Tick ==
    /\ now < MaxClock
    /\ now' = now + 1
    /\ UNCHANGED <<adapter, parsedData, calls, started, caller, probe>>

Next ==
    \/ \E c \in CallIds : StartCall(c)
    \/ \E c \in CallIds : FileLoaded(c)
    \/ \E c \in CallIds : Resume(c)
    \/ Tick

Spec == Init /\ [][Next]_vars
SpecRerun == InitRerun /\ [][Next]_vars
SpecOverlap == InitOverlap /\ [][Next]_vars

\* mapWazuhLevel(rule.level) as parseWazuhLogs calls it for an alert, the
\* level read off the alert's rule
ApplyLevel ==
    /\ adapter = "wazuh"
    /\ \E alert \in LevelAlerts :
          probe' = [fn |-> "mapWazuhLevel", arg |-> GetN(alert.rule, "level"),
                    out |-> WazuhThreat(EmptyData, alert, now).threats[1].severity]
    /\ UNCHANGED <<adapter, parsedData, calls, started, now, caller>>

\* isInternalIP(ip), the same method in the four classes
ApplyClassifier ==
    /\ \E ip \in Addresses : probe' = [fn |-> "isInternalIP", arg |-> ip,
                                        out |-> isInternalIP(ip)]
    /\ UNCHANGED <<adapter, parsedData, calls, started, now, caller>>

NextHelpers ==
    \/ ApplyLevel
    \/ ApplyClassifier

\* the helper methods called on a fresh instance
SpecHelpers == Init /\ [][NextHelpers]_vars

\* one analysis whose reads may fail
InitRead ==
    InitWith([a \in Adapters |-> OverlapFilesOf(a)], [a \in Adapters |-> {a}], 1, 0,
             MaxFiles)

NextRead ==
    \/ Next
    \/ \E c \in CallIds : ReadFails(c)

\* the browser ends every read, with a load or with an error, and the event
\* loop runs every continuation of a settled promise
SpecRead ==
    /\ InitRead
    /\ [][NextRead]_vars
    /\ WF_vars(\E c \in CallIds : FileLoaded(c) \/ ReadFails(c))
    /\ WF_vars(\E c \in CallIds : Resume(c))

TypeOK ==
    /\ adapter \in Adapters
    /\ started \in 0..MaxRuns
    /\ now \in 0..MaxClock
    /\ \A c \in CallIds :
          calls[c].pc \in {"idle", "reading", "parsing", "stuck", "done", "failed"}

\* ------------------------------------------------------------------ claims
\* the text an indicator starts with; a native threat is an object
Kind(ind) == IF "kind" \in DOMAIN ind THEN ind.kind ELSE "object"
\* the text an attack-chain entry carries after its number
Label(entry) == IF "label" \in DOMAIN entry THEN entry.label ELSE "native"
Field(list, f) == [i \in 1..Len(list) |-> list[i][f]]
OfKind(list, k) == SelectSeq(list, LAMBDA ind : Kind(ind) = k)
OfLabel(list, l) == SelectSeq(list, LAMBDA entry : Label(entry) = l)

\* the latest call has returned its bundle, and parsedData is still the
\* dataset that bundle was made from
Returned == started >= 1 /\ calls[started].pc = "done"
Indicators == calls[started].bundle.aptPatterns.threatIndicators
Chain == calls[started].bundle.aptPatterns.attackChain

\* C1: in every returned bundle the k-th attack-chain entry carries the
\* number k, whatever rule family produced it.
C1_ChainNumbered ==
    \A c \in CallIds :
        calls[c].pc = "done" =>
            LET chain == calls[c].bundle.aptPatterns.attackChain
            IN  \A k \in 1..Len(chain) : chain[k].step = k

\* a returned chain of three or more entries from two or more rule families
C1_Witness ==
    /\ Returned
    /\ Len(Chain) >= 3
    /\ \E i, j \in 1..Len(Chain) : Label(Chain[i]) # Label(Chain[j])

External(conns) == SelectSeq(conns, LAMBDA conn : ~isInternalIP(conn.destinationIp))

\* C2: a returned bundle holds one "Command and Control" indicator and one
\* "Command and Control (C2)" chain entry per connection of the dataset whose
\* destination is not internal, in order and naming that destination, and
\* none for an internal destination; a Sysmon batch of one EventID 3 event
\* with a public destination gives one such indicator and chain entry 1.
C2_CommandAndControl ==
    Returned =>
        /\ Field(OfKind(Indicators, "Command and Control Connection"), "ip")
             = Field(External(parsedData.networkConnections), "destinationIp")
        /\ Field(OfLabel(Chain, "Command and Control (C2)"), "ip")
             = Field(External(parsedData.networkConnections), "destinationIp")
        /\ (/\ adapter = "sysmon"
            /\ calls[started].format = "sysmon"
            /\ Len(calls[started].files) = 1
            /\ calls[started].files[1].kind = "array"
            /\ Len(calls[started].files[1].items) = 1
            /\ GetN(calls[started].files[1].items[1], "EventID") = 3
            /\ ~isInternalIP(Get(calls[started].files[1].items[1], "DestinationIp")))
           => /\ Len(Indicators) = 1
              /\ Kind(Indicators[1]) = "Command and Control Connection"
              /\ Indicators[1].ip = calls[started].files[1].items[1].DestinationIp
              /\ Len(Chain) >= 1
              /\ Chain[1].step = 1
              /\ Label(Chain[1]) = "Command and Control (C2)"

\* a returned bundle over a dataset with an external and an internal connection
C2_Witness ==
    /\ Returned
    /\ OfKind(Indicators, "Command and Control Connection") # <<>>
    /\ Len(External(parsedData.networkConnections)) < Len(parsedData.networkConnections)

\* the single-event scenario has been run
C2_ScenarioWitness ==
    /\ Returned
    /\ adapter = "sysmon"
    /\ calls[started].files = <<Array(<<sNetExt>>)>>
    /\ calls[started].format = "sysmon"

\* C3: in a returned bundle the native threat objects are the threat records
\* of the dataset, one each and in order; for Wazuh every threat record (one
\* per alert with a rule id and a rule description) also has its own chain
\* entry and the two lists have equal length; for Defender the Detection
\* records add no chain entry.
C3_NativeThreats ==
    Returned =>
        /\ Field(OfKind(Indicators, "object"), "threatName")
             = Field(parsedData.threats, "threatName")
        /\ adapter = "wazuh" =>
              /\ Len(Indicators) = Len(Chain)
              /\ Len(Chain) = Len(parsedData.threats)
              /\ \A k \in 1..Len(Chain) :
                    /\ Chain[k].threatName = parsedData.threats[k].threatName
                    /\ TruthyS(parsedData.threats[k].rule)
                    /\ TruthyS(parsedData.threats[k].threatName)
        /\ adapter = "defender" => OfLabel(Chain, "native") = <<>>
        /\ adapter = "defender" =>
              Len(Chain) = Len(Indicators) - Len(parsedData.threats)

\* returned bundles with native threats: Wazuh with two alerts, Defender with
\* a Detection next to a chain entry
C3_WitnessWazuh ==
    Returned /\ adapter = "wazuh" /\ Len(parsedData.threats) >= 2
C3_WitnessDefender ==
    Returned /\ adapter = "defender" /\ Len(parsedData.threats) >= 1 /\ Len(Chain) >= 1

\* the bundle with every timestamp that new Date() supplied set to one value
MaskTime(rec) ==
    IF \E t \in 0..MaxClock : rec.timestamp = toISOString(t)
    THEN [rec EXCEPT !.timestamp = toISOString(0)] ELSE rec
MaskList(list) == [i \in 1..Len(list) |-> MaskTime(list[i])]
MaskBundle(b) ==
    [b EXCEPT !.fileMap.fileActivities = MaskList(@),
              !.networkMap.connections = MaskList(@),
              !.networkMap.dnsQueries = MaskList(@)]

\* the dataset of a batch parsed on its own, from empty lists
RECURSIVE ParseAlone(_, _, _)
ParseAlone(pd, files, format) ==
    IF files = <<>> THEN pd
    ELSE ParseAlone(parseByFormat(adapter, pd, Head(files), format, 0).pd,
                    Tail(files), format)
BundleAlone(files, format) ==
    Bundle(generateVisualizationData(adapter, ParseAlone(EmptyData, files, format)))

\* C4 as stated: two returned calls with the same files and format return
\* identical bundles.
C4_IdenticalBundles ==
    \A c1, c2 \in CallIds :
        (/\ calls[c1].pc = "done" /\ calls[c2].pc = "done"
         /\ calls[c1].files = calls[c2].files /\ calls[c1].format = calls[c2].format)
        => calls[c1].bundle = calls[c2].bundle

\* C4 (amended): with non-overlapping calls on one instance, the lists are
\* empty when a call starts reading its first file, a returned bundle is the
\* bundle of that call's files parsed on their own, its chain starts at 1,
\* and two calls with the same files and format return bundles that are
\* identical up to the timestamps the parser took from the clock.
C4_FreshPerCall ==
    /\ \A c \in CallIds :
          (calls[c].pc = "reading" /\ calls[c].idx = 1) => parsedData = EmptyData
    /\ \A c \in CallIds :
          calls[c].pc = "done" =>
              /\ MaskBundle(calls[c].bundle)
                   = MaskBundle(BundleAlone(calls[c].files, calls[c].format))
              /\ calls[c].bundle.aptPatterns.attackChain # <<>>
                   => calls[c].bundle.aptPatterns.attackChain[1].step = 1
    /\ \A c1, c2 \in CallIds :
          (/\ calls[c1].pc = "done" /\ calls[c2].pc = "done"
           /\ calls[c1].files = calls[c2].files /\ calls[c1].format = calls[c2].format)
          => MaskBundle(calls[c1].bundle) = MaskBundle(calls[c2].bundle)

\* a second analysis of the same non-empty batch has returned, after a first
\* one that left records, and the two bundles differ in a clock timestamp
C4_Witness ==
    /\ started = 2
    /\ calls[1].pc = "done" /\ calls[2].pc = "done"
    /\ calls[1].files = calls[2].files /\ calls[1].format = calls[2].format
    /\ calls[2].bundle.aptPatterns.attackChain # <<>>
    /\ calls[1].bundle # calls[2].bundle

\* C5: no parseLogs call ends with an exception.
C5_NoExceptionEscapes == \A c \in CallIds : calls[c].pc # "failed"

\* C6: every record of a category list has the field its category requires.
C6_RequiredFieldSet ==
    /\ \A i \in 1..Len(parsedData.processes) : TruthyN(parsedData.processes[i].processId)
    /\ \A i \in 1..Len(parsedData.networkConnections) :
          TruthyS(parsedData.networkConnections[i].destinationIp)
    /\ \A i \in 1..Len(parsedData.fileActivities) :
          TruthyS(parsedData.fileActivities[i].filePath)
    /\ \A i \in 1..Len(parsedData.dnsQueries) : TruthyS(parsedData.dnsQueries[i].queryName)

\* content that is not JSON in any shape the adapter reads
Malformed(a, content) ==
    IF a = "elk" THEN content.kind = "garbage" ELSE content.kind \in {"garbage", "lines"}

Categories == DOMAIN EmptyData
Concat(pd, more) == [cat \in Categories |-> pd[cat] \o more[cat]]
MaskData(pd) == [cat \in Categories |-> MaskList(pd[cat])]
WellFormed(files) == SelectSeq(files, LAMBDA f : ~Malformed(adapter, f))

\* C7: the step that parses a malformed file adds no record and raises no
\* exception, every parse step appends exactly the records its file gives
\* when parsed alone, the loop never goes back to a file, and the dataset of
\* a returned call is the dataset of its batch without the malformed files.
C7_MalformedSkipped ==
    [][\A c \in CallIds :
          /\ (calls[c].pc = "reading" /\ calls'[c].pc = "parsing") =>
                LET f == calls[c].files[calls[c].idx]
                    alone == parseByFormat(adapter, EmptyData, f, calls[c].format, now).pd
                IN  /\ parsedData' = Concat(parsedData, alone)
                    /\ (Malformed(adapter, f) /\ calls[c].format = adapter) =>
                          /\ parsedData' = parsedData
                          /\ ~calls'[c].threw
          /\ (calls[c].pc = "parsing" /\ calls'[c].pc = "reading") =>
                calls'[c].idx = calls[c].idx + 1
          /\ (c = started' /\ calls'[c].pc = "done") =>
                MaskData(parsedData')
                  = MaskData(ParseAlone(EmptyData, WellFormed(calls'[c].files),
                                        calls'[c].format))
      ]_vars

\* a returned call whose batch is a malformed file followed by a file that
\* gave records
C7_Witness ==
    /\ Returned
    /\ calls[started].format = adapter
    /\ Len(calls[started].files) = 2
    /\ Malformed(adapter, calls[started].files[1])
    /\ parsedData # EmptyData

\* C8: a call whose declared format is not the adapter's tag parses nothing,
\* never ends with an exception, and returns a bundle whose five lists are
\* empty.
C8_FormatMismatch ==
    (started >= 1 /\ calls[started].format # adapter) =>
        /\ parsedData = EmptyData
        /\ calls[started].pc # "failed"
        /\ calls[started].pc = "done" =>
              /\ Indicators = <<>>
              /\ Chain = <<>>
              /\ calls[started].bundle.fileMap.fileActivities = <<>>
              /\ calls[started].bundle.networkMap.connections = <<>>
              /\ calls[started].bundle.networkMap.dnsQueries = <<>>

\* a returned call with a foreign format over two files, one of which would
\* have given records and one of which holds a null element
C8_Witness ==
    /\ Returned
    /\ calls[started].format # adapter
    /\ Len(calls[started].files) = 2
    /\ \E i \in 1..2 : \E k \in 1..Len(calls[started].files[i].items) :
          calls[started].files[i].items[k] = Null
    /\ ParseAlone(EmptyData, calls[started].files, adapter) # EmptyData

Created(files) ==
    SelectSeq(files, LAMBDA f : f.action = "File Created" /\ Includes(f.filePath, Temp))
Deleted(files) == SelectSeq(files, LAMBDA f : f.action = "File Deleted")

\* C9: in a returned Sysmon or Defender bundle the "Exfiltration Staging"
\* indicators and "Exfiltration" chain entries are, in order, the file-created
\* activities whose path contains "Temp"; in a Sysmon bundle the "Evidence
\* Tampering" indicators and entries are the file-deleted activities, whatever
\* their path, numbered after every connection entry; Defender emits nothing
\* for a deleted file, and ELK and Wazuh emit nothing for any file activity.
C9_FileRules ==
    Returned =>
        /\ adapter \in {"sysmon", "defender"} =>
              /\ Field(OfKind(Indicators, "Exfiltration Staging"), "path")
                   = Field(Created(parsedData.fileActivities), "filePath")
              /\ Field(OfLabel(Chain, "Exfiltration"), "path")
                   = Field(Created(parsedData.fileActivities), "filePath")
        /\ adapter = "sysmon" =>
              /\ Field(OfKind(Indicators, "Evidence Tampering"), "path")
                   = Field(Deleted(parsedData.fileActivities), "filePath")
              /\ Field(OfLabel(Chain, "Evidence Tampering"), "path")
                   = Field(Deleted(parsedData.fileActivities), "filePath")
              /\ \A i, j \in 1..Len(Chain) :
                    (/\ Label(Chain[i]) \in {"Command and Control (C2)", "Lateral Movement"}
                     /\ Label(Chain[j]) \in {"Exfiltration", "Evidence Tampering"})
                    => Chain[i].step < Chain[j].step
        /\ adapter # "sysmon" =>
              /\ OfKind(Indicators, "Evidence Tampering") = <<>>
              /\ OfLabel(Chain, "Evidence Tampering") = <<>>
        /\ adapter \in {"elk", "wazuh"} =>
              /\ OfKind(Indicators, "Exfiltration Staging") = <<>>
              /\ OfLabel(Chain, "Exfiltration") = <<>>

\* a returned Sysmon bundle with a staging entry and a tampering entry
\* behind a connection entry
C9_Witness ==
    /\ Returned
    /\ adapter = "sysmon"
    /\ OfLabel(Chain, "Exfiltration") # <<>>
    /\ OfLabel(Chain, "Evidence Tampering") # <<>>
    /\ Label(Chain[1]) \in {"Command and Control (C2)", "Lateral Movement"}

\* a returned Defender bundle over a deleted file, and an ELK bundle over a
\* file created under Temp
C9_WitnessDefender ==
    Returned /\ adapter = "defender" /\ Deleted(parsedData.fileActivities) # <<>>
C9_WitnessElk ==
    Returned /\ adapter = "elk" /\ Created(parsedData.fileActivities) # <<>>

Smb(conns) ==
    SelectSeq(conns, LAMBDA conn : isInternalIP(conn.destinationIp)
                                   /\ conn.destinationPort = 445)

\* C10: in a returned Sysmon bundle the "Lateral Movement - SMB" indicators
\* and "Lateral Movement" chain entries are, in order, the connections with an
\* internal destination on port 445, and C2 and lateral entries together are
\* at most one per connection; the other three detectors emit none.
C10_LateralMovement ==
    Returned =>
        /\ adapter = "sysmon" =>
              /\ Field(OfKind(Indicators, "Lateral Movement - SMB"), "dst")
                   = Field(Smb(parsedData.networkConnections), "destinationIp")
              /\ Field(OfLabel(Chain, "Lateral Movement"), "dst")
                   = Field(Smb(parsedData.networkConnections), "destinationIp")
              /\ Len(OfLabel(Chain, "Lateral Movement"))
                   + Len(OfLabel(Chain, "Command and Control (C2)"))
                   <= Len(parsedData.networkConnections)
              /\ Len(OfKind(Indicators, "Lateral Movement - SMB"))
                   + Len(OfKind(Indicators, "Command and Control Connection"))
                   <= Len(parsedData.networkConnections)
        /\ adapter # "sysmon" =>
              /\ OfKind(Indicators, "Lateral Movement - SMB") = <<>>
              /\ OfLabel(Chain, "Lateral Movement") = <<>>

\* a returned Sysmon bundle with a lateral-movement entry, over a dataset
\* that also holds a connection without destination on port 445
C10_Witness ==
    /\ Returned
    /\ adapter = "sysmon"
    /\ OfLabel(Chain, "Lateral Movement") # <<>>
    /\ \E i \in 1..Len(parsedData.networkConnections) :
          /\ parsedData.networkConnections[i].destinationPort = 445
          /\ ~isInternalIP(parsedData.networkConnections[i].destinationIp)

\* a returned ELK or Defender bundle over an internal connection on port 445
C10_WitnessOthers ==
    Returned /\ adapter \in {"elk", "defender"} /\ Smb(parsedData.networkConnections) # <<>>

\* the events of a file that are read before the first null element
RECURSIVE Readable(_)
Readable(items) ==
    IF items = <<>> \/ Head(items) = Null THEN <<>>
    ELSE <<Head(items)>> \o Readable(Tail(items))

\* the records one event gives when its file holds nothing else
EventAlone(f, event, format) ==
    parseByFormat(adapter, EmptyData, [kind |-> f.kind, items |-> <<event>>], format, 0).pd

\* the records of the events, list by list, one event after the other
RECURSIVE EventsInOrder(_, _, _)
EventsInOrder(f, events, format) ==
    IF events = <<>> THEN EmptyData
    ELSE Concat(EventAlone(f, Head(events), format),
                EventsInOrder(f, Tail(events), format))

\* the records of the files, list by list, one file after the other
RECURSIVE FilesInOrder(_, _)
FilesInOrder(files, format) ==
    IF files = <<>> THEN EmptyData
    ELSE Concat(EventsInOrder(Head(files), Readable(Head(files).items), format),
                FilesInOrder(Tail(files), format))

\* the bundle list holds the dataset's records, one each and in its order
PassedThrough(blist, dlist) ==
    /\ Len(blist) = Len(dlist)
    /\ \A i \in 1..Len(dlist) :
          \A f \in DOMAIN dlist[i] : f \in DOMAIN blist[i] /\ blist[i][f] = dlist[i][f]

\* C11: while a call reads and parses its batch, and when it has returned,
\* every category list holds the records of the files parsed so far in file
\* order and, within a file, in event order; the fileActivities, connections
\* and dnsQueries lists of a returned bundle hold the dataset's records in
\* that same order, whatever their timestamps.
C11_SubmissionOrder ==
    /\ \A c \in CallIds :
          (c = started /\ calls[c].pc \in {"reading", "parsing", "done"}) =>
              LET n == IF calls[c].pc = "reading" THEN calls[c].idx - 1 ELSE calls[c].idx
              IN  MaskData(parsedData)
                    = MaskData(FilesInOrder(SubSeq(calls[c].files, 1, n), calls[c].format))
    /\ Returned =>
          /\ PassedThrough(calls[started].bundle.fileMap.fileActivities,
                           parsedData.fileActivities)
          /\ PassedThrough(calls[started].bundle.networkMap.connections,
                           parsedData.networkConnections)
          /\ PassedThrough(calls[started].bundle.networkMap.dnsQueries,
                           parsedData.dnsQueries)

\* a returned bundle over two files that both gave file activities, with a
\* later timestamp ahead of an earlier one
C11_Witness ==
    /\ Returned
    /\ Len(calls[started].files) = 2
    /\ calls[started].files[1] # calls[started].files[2]
    /\ \A i \in 1..2 :
          ParseAlone(EmptyData, <<calls[started].files[i]>>, adapter).fileActivities # <<>>
    /\ Len(calls[started].bundle.fileMap.fileActivities) >= 3
    /\ \E i \in 1..Len(parsedData.fileActivities) - 1 :
          /\ parsedData.fileActivities[i].timestamp = Ts2
          /\ parsedData.fileActivities[i + 1].timestamp = Ts1

\* the records of the bundle's pass-through lists
BundleRecords(b) ==
    {b.fileMap.fileActivities[i] : i \in 1..Len(b.fileMap.fileActivities)}
      \cup {b.networkMap.connections[i] : i \in 1..Len(b.networkMap.connections)}
      \cup {b.networkMap.dnsQueries[i] : i \in 1..Len(b.networkMap.dnsQueries)}

\* C12: a call that no other call overlapped (none was in flight when it
\* started, none started while it was in flight) keeps every record it has
\* parsed until it returns, and its bundle is the bundle of its own files;
\* the witness is the overlapping interleaving in which this fails.
C12_IsolatedUnlessOverlapped ==
    \A c \in CallIds :
        ~calls[c].overlapped =>
            /\ InFlight(c) =>
                  LET n == IF calls[c].pc = "reading" THEN calls[c].idx - 1
                           ELSE calls[c].idx
                  IN  MaskData(parsedData)
                        = MaskData(ParseAlone(EmptyData, SubSeq(calls[c].files, 1, n),
                                              calls[c].format))
            /\ calls[c].pc = "done" =>
                  MaskBundle(calls[c].bundle)
                    = MaskBundle(BundleAlone(calls[c].files, calls[c].format))

\* a first call that parsed its file, was suspended while a second call
\* started, and returned a bundle without its own records and with a record
\* of the second call's file
C12_Witness ==
    /\ started >= 2
    /\ calls[1].pc = "done" /\ calls[1].overlapped
    /\ calls[2].overlapped
    /\ LET own == BundleRecords(MaskBundle(BundleAlone(calls[1].files, calls[1].format)))
           got == BundleRecords(MaskBundle(calls[1].bundle))
           other == BundleRecords(MaskBundle(BundleAlone(calls[2].files, calls[2].format)))
       IN  /\ own # {}
           /\ own \cap got = {}
           /\ got # {}
           /\ got \subseteq other

\* C13: a call in which the read of a file has failed goes on and eventually
\* returns a bundle.
C13_ReadFailureTolerated ==
    \A c \in CallIds : (calls[c].pc = "stuck") ~> (calls[c].pc = "done")

\* C14: an alert without a level gets "low"; a present level of 12 or more
\* gets "high", 7 to 11 "medium", 3 to 6 "low", and 0, 1 and 2
\* "informational".
C14_SeverityMapping ==
    probe.fn = "mapWazuhLevel" =>
        probe.out = IF probe.arg = NoNum THEN "low"
                    ELSE IF probe.arg >= 12 THEN "high"
                    ELSE IF probe.arg >= 7 THEN "medium"
                    ELSE IF probe.arg >= 3 THEN "low"
                    ELSE "informational"

\* a part of an address that is a decimal number
IsOctet(part) == part # <<>> /\ \A i \in 1..Len(part) : DigitVal(part[i]) # NoNum

\* the private ranges, on a dotted quad of decimal octets
PrivateQuad(ip) ==
    LET parts == Split(ip, ".")
    IN  /\ Len(parts) = 4
        /\ \A i \in 1..4 : IsOctet(parts[i])
        /\ \/ ParseInt(parts[1]) = 10
           \/ ParseInt(parts[1]) = 172 /\ ParseInt(parts[2]) \in 16..31
           \/ ParseInt(parts[1]) = 192 /\ ParseInt(parts[2]) = 168

\* C15: the classifier answers false for an empty or missing address, true
\* for the literals 127.0.0.1 and ::1, true for a dotted quad in 10.x.x.x,
\* 172.16-31.x.x or 192.168.x.x, and false for every other address.
C15_InternalAddress ==
    probe.fn = "isInternalIP" =>
        probe.out = (/\ probe.arg # <<>>
                     /\ probe.arg # Undef
                     /\ \/ probe.arg \in {Loopback4, Loopback6}
                        \/ PrivateQuad(probe.arg))

\* the final segment of a path, with both separators
LastSegment(image) == Pop(Split(Pop(Split(image, "\\")), "/"))

\* C16: in every record that carries an image, processName is the final
\* segment of the image after splitting on both "\" and "/", and "N/A" when
\* the image is empty or missing.
C16_ProcessNameFromImage ==
    \A cat \in Categories : \A i \in 1..Len(parsedData[cat]) :
        LET rec == parsedData[cat][i]
        IN  "image" \in DOMAIN rec =>
               rec.processName = IF TruthyS(rec.image) THEN LastSegment(rec.image) ELSE NA

================================================================
